---- MODULE Spec2Model ----
(***************************************************************************)
(* whos-done-that: per-author commit and edit statistics of a git          *)
(* repository (src/src/main.rs).                                           *)
(*                                                                         *)
(* Text is a sequence of bytes; a byte is written as a one-character       *)
(* string ("a", "\n"), and the bytes above 0x7f as "<C3>", "<A9>".         *)
(* The external tool (bash -c git ...) is the environment: each query is   *)
(* answered by a response [launched, code, stdout] chosen from a bounded   *)
(* set.                                                                    *)
(***************************************************************************)
EXTENDS Integers, Sequences, FiniteSets, TLC

VARIABLES
    pc,            \* position of main
    authors,       \* main: the Vec<String> returned by get_all_authors
    idx,           \* main: index of the element the running for loop is at
    num_commits,   \* main: the commit count of the author at idx
    authors_data,  \* main: the Vec<AuthorData>
    out,           \* what each writeln! wrote to stdout_handle, in order
    printed,       \* history: the AuthorData each written line was made of
    queries,       \* history: the commands run so far and whether the
                   \* function that ran each returned Ok
    err,           \* the step whose error main returned ("" while none)
    call,          \* unit specifications: the function that was applied
    resp,          \* unit specifications: the subprocess response it met
    ret            \* unit specifications: what the function returned

vars == <<pc, authors, idx, num_commits, authors_data, out, printed, queries,
          err, call, resp, ret>>

mainVars ==
    <<pc, authors, idx, num_commits, authors_data, out, printed, queries, err>>
unitVars == <<call, resp, ret>>

(***************************************************************************)
(* Bounds of the model.                                                    *)
(***************************************************************************)
RunnerMaxLen == 3
AuthorsMaxLen == 6
CommitsMaxLen == 3
EditsMaxLen == 5
MaxSummaryLines == 3

(***************************************************************************)
(* Bytes and text.                                                         *)
(***************************************************************************)
Byte(c) ==
    CASE c = "\t" -> 9
      [] c = "\n" -> 10
      [] c = "\f" -> 12
      [] c = "\r" -> 13
      [] c = " " -> 32
      [] c = "+" -> 43
      [] c = "-" -> 45
      [] c = "0" -> 48
      [] c = "1" -> 49
      [] c = "2" -> 50
      [] c = "3" -> 51
      [] c = "4" -> 52
      [] c = "5" -> 53
      [] c = "6" -> 54
      [] c = "7" -> 55
      [] c = "8" -> 56
      [] c = "9" -> 57
      [] c = "A" -> 65
      [] c = "B" -> 66
      [] c = "a" -> 97
      [] c = "b" -> 98
      [] c = "x" -> 120
      [] c = "<C3>" -> 195
      [] c = "<A9>" -> 169

SeqsUpTo(S, n) == UNION {[1..k -> S] : k \in 0..n}

Ok(v) == [ok |-> TRUE, val |-> v]
Err(e) == [ok |-> FALSE, err |-> e]

\* std::string::String::from_utf8: whether the bytes from position i on are
\* well-formed UTF-8 (the table of the Unicode standard, as core::str
\* validates it).
RECURSIVE Utf8From(_, _)
Utf8From(b, i) ==
    IF i > Len(b) THEN TRUE
    ELSE LET n == Len(b)
             b0 == Byte(b[i])
             Cont(k, lo, hi) == k <= n /\ Byte(b[k]) >= lo /\ Byte(b[k]) <= hi
         IN  IF b0 < 128 THEN Utf8From(b, i + 1)
             ELSE IF b0 >= 194 /\ b0 <= 223
                  THEN Cont(i + 1, 128, 191) /\ Utf8From(b, i + 2)
             ELSE IF b0 >= 224 /\ b0 <= 239
                  THEN /\ Cont(i + 1, IF b0 = 224 THEN 160 ELSE 128,
                                      IF b0 = 237 THEN 159 ELSE 191)
                       /\ Cont(i + 2, 128, 191)
                       /\ Utf8From(b, i + 3)
             ELSE IF b0 >= 240 /\ b0 <= 244
                  THEN /\ Cont(i + 1, IF b0 = 240 THEN 144 ELSE 128,
                                      IF b0 = 244 THEN 143 ELSE 191)
                       /\ Cont(i + 2, 128, 191)
                       /\ Cont(i + 3, 128, 191)
                       /\ Utf8From(b, i + 4)
             ELSE FALSE

\* String::from_utf8(bytes).unwrap_or_default(): the text, or the empty
\* String when the bytes are not UTF-8.
from_utf8_unwrap_or_default(bytes) ==
    IF Utf8From(bytes, 1) THEN bytes ELSE <<>>

\* stdout.ends_with('\n')
ends_with_newline(s) == s # <<>> /\ s[Len(s)] = "\n"

\* String::pop: the text without its last character.  Only called on a text
\* that ends with '\n', a character of one byte.
pop(s) == SubSeq(s, 1, Len(s) - 1)

(***************************************************************************)
(* get_stdout_from_subprocess_or_fail (main.rs 208-226).  A response is    *)
(* what Command::output() gave: launched (FALSE: an io::Error), the exit   *)
(* code and the bytes of stdout.                                           *)
(***************************************************************************)
get_stdout_from_subprocess_or_fail(r) ==
    IF ~r.launched THEN Err("launch")
    ELSE IF r.code # 0 THEN Err("exit")
    ELSE LET stdout == from_utf8_unwrap_or_default(r.stdout)
         IN  Ok(IF ends_with_newline(stdout) THEN pop(stdout) ELSE stdout)

(***************************************************************************)
(* The text operations of the parsers.                                     *)
(***************************************************************************)
\* u8::is_ascii_whitespace: space, tab, line feed, form feed, carriage return.
is_ascii_whitespace(c) == c \in {" ", "\t", "\n", "\f", "\r"}

\* The index of the first '\n' of s, 0 when there is none.
FirstNewline(s) ==
    LET at == {i \in 1..Len(s) : s[i] = "\n"}
    IN  IF at = {} THEN 0 ELSE CHOOSE i \in at : \A j \in at : i <= j

\* str::lines: the text is cut after each '\n'; a piece loses its final
\* '\n' and then a '\r' before it; the text after the last '\n' is a line
\* of its own unless it is empty.
RECURSIVE lines(_)
lines(s) ==
    IF s = <<>> THEN <<>>
    ELSE LET k == FirstNewline(s)
         IN  IF k = 0 THEN <<s>>
             ELSE LET l == SubSeq(s, 1, k - 1)
                      line == IF l # <<>> /\ l[Len(l)] = "\r"
                              THEN SubSeq(l, 1, Len(l) - 1) ELSE l
                  IN  <<line>> \o lines(SubSeq(s, k + 1, Len(s)))

\* str::split_ascii_whitespace: the maximal runs of bytes that are not
\* ASCII whitespace, in order.
RECURSIVE split_ascii_whitespace(_)
split_ascii_whitespace(s) ==
    IF s = <<>> THEN <<>>
    ELSE IF is_ascii_whitespace(Head(s)) THEN split_ascii_whitespace(Tail(s))
    ELSE LET ws == {i \in 1..Len(s) : is_ascii_whitespace(s[i])}
             e == IF ws = {} THEN Len(s) + 1
                  ELSE CHOOSE i \in ws : \A j \in ws : i <= j
         IN  <<SubSeq(s, 1, e - 1)>>
                 \o split_ascii_whitespace(SubSeq(s, e, Len(s)))

\* [&str]::join(" ")
RECURSIVE join(_)
join(tokens) ==
    IF tokens = <<>> THEN <<>>
    ELSE IF Len(tokens) = 1 THEN tokens[1]
    ELSE tokens[1] \o <<" ">> \o join(Tail(tokens))

\* impl Ord for str: the order of the byte sequences.
RECURSIVE str_lt(_, _)
str_lt(a, b) ==
    IF b = <<>> THEN FALSE
    ELSE IF a = <<>> THEN TRUE
    ELSE IF Byte(Head(a)) # Byte(Head(b)) THEN Byte(Head(a)) < Byte(Head(b))
    ELSE str_lt(Tail(a), Tail(b))

\* Vec<String>::sort (main.rs 139): a stable sort, ascending by str's Ord.
\* Each element is put after the elements that are not greater than it.
RECURSIVE sort(_)
sort(v) ==
    IF v = <<>> THEN <<>>
    ELSE LET rest == sort(SubSeq(v, 1, Len(v) - 1))
             x == v[Len(v)]
             k == Cardinality({i \in 1..Len(rest) : ~str_lt(x, rest[i])})
         IN  SubSeq(rest, 1, k) \o <<x>> \o SubSeq(rest, k + 1, Len(rest))

is_digit(c) == c \in {"0", "1", "2", "3", "4", "5", "6", "7", "8", "9"}

RECURSIVE DecimalValue(_)
DecimalValue(digits) ==
    IF digits = <<>> THEN 0
    ELSE 10 * DecimalValue(SubSeq(digits, 1, Len(digits) - 1))
             + (Byte(digits[Len(digits)]) - 48)

\* <usize as FromStr>::from_str: an optional '+', then one or more decimal
\* digits.  An empty text, a lone sign, a '-' and any other byte are errors.
\* (A value above usize::MAX is an error too; the texts of this model are
\* far shorter than the 20 digits that takes.)
parse(src) ==
    IF src = <<>> THEN Err("Empty")
    ELSE IF Len(src) = 1 /\ Head(src) \in {"+", "-"} THEN Err("InvalidDigit")
    ELSE LET digits == IF Head(src) = "+" THEN Tail(src) ELSE src
         IN  IF \A i \in 1..Len(digits) : is_digit(digits[i])
             THEN Ok(DecimalValue(digits))
             ELSE Err("InvalidDigit")

\* Result::unwrap_or(0)
unwrap_or_0(r) == IF r.ok THEN r.val ELSE 0

(***************************************************************************)
(* get_all_authors (main.rs 116-142), given the response to its command.   *)
(***************************************************************************)
\* The closure of filter_map (main.rs 126-135): the tokens of the line but
\* the first, joined by single spaces.
author_of_line_keeps_count(l) == join(split_ascii_whitespace(l))

author_of_line(l) ==
    LET tokens == split_ascii_whitespace(l)
        author_tokens == SubSeq(tokens, 2, Len(tokens))
    IN  join(author_tokens)

authors_of_stdout(stdout) ==
    LET ls == lines(stdout)
    IN  sort([i \in 1..Len(ls) |-> author_of_line(ls[i])])

get_all_authors(r) ==
    LET stdout == get_stdout_from_subprocess_or_fail(r)
    IN  IF ~stdout.ok THEN stdout ELSE Ok(authors_of_stdout(stdout.val))

(***************************************************************************)
(* get_num_author_commits (main.rs 146-165).                               *)
(***************************************************************************)
get_num_author_commits_lenient(r) ==
    LET stdout == get_stdout_from_subprocess_or_fail(r)
    IN  IF ~stdout.ok THEN stdout ELSE Ok(unwrap_or_0(parse(stdout.val)))

get_num_author_commits(r) ==
    LET stdout == get_stdout_from_subprocess_or_fail(r)
    IN  IF ~stdout.ok THEN stdout
        ELSE LET num_of_commits == parse(stdout.val)
             IN  IF num_of_commits.ok THEN num_of_commits ELSE Err("parse")

(***************************************************************************)
(* get_num_author_edits (main.rs 169-203).                                 *)
(***************************************************************************)
\* What one line adds to total_additions (k = 1) or total_removals (k = 2):
\* tokens.get(k - 1), parsed, or 0 (main.rs 189-194).
LineField_off_by_one(l, k) ==
    LET tokens == split_ascii_whitespace(l)
    IN  IF k + 1 <= Len(tokens) THEN unwrap_or_0(parse(tokens[k + 1])) ELSE 0

LineField(l, k) ==
    LET tokens == split_ascii_whitespace(l)
    IN  IF k <= Len(tokens) THEN unwrap_or_0(parse(tokens[k])) ELSE 0

RECURSIVE total(_, _)
total(ls, k) ==
    IF ls = <<>> THEN 0
    ELSE total(SubSeq(ls, 1, Len(ls) - 1), k) + LineField(ls[Len(ls)], k)

get_num_author_edits(r) ==
    LET stdout == get_stdout_from_subprocess_or_fail(r)
    IN  IF ~stdout.ok THEN stdout
        ELSE LET ls == lines(stdout.val)
             IN  Ok([additions |-> total(ls, 1), removals |-> total(ls, 2)])


ExitCodes == {0, 1}
NotLaunched == [launched |-> FALSE, code |-> 0, stdout |-> <<>>]
Responses(texts) ==
    {NotLaunched} \cup [launched : {TRUE}, code : ExitCodes, stdout : texts]

NoResp == NotLaunched
NoRet == Err("none")

RunnerBytes == {"\n", " ", "a", "<C3>", "<A9>"}
RunnerInputs == Responses(SeqsUpTo(RunnerBytes, RunnerMaxLen))

InitMainIdle ==
    /\ pc = "idle"
    /\ authors = <<>>
    /\ idx = 0
    /\ num_commits = 0
    /\ authors_data = <<>>
    /\ out = <<>>
    /\ printed = <<>>
    /\ queries = <<>>
    /\ err = ""

InitRunner ==
    /\ InitMainIdle
    /\ call = "none"
    /\ resp \in RunnerInputs
    /\ ret = NoRet

CallRunner ==
    /\ call = "none"
    /\ call' = "runner"
    /\ ret' = get_stdout_from_subprocess_or_fail(resp)
    /\ UNCHANGED <<resp, mainVars>>

SpecRunner == InitRunner /\ [][CallRunner]_vars

AuthorsBytes == {"\n", " ", "\t", "1", "a"}
\* Two summaries that are not UTF-8, and one as git prints it, in which two
\* lines give the same name.
AuthorsSamples ==
    {<<"1", " ", "a", "\n", "1", " ", "<A9>">>, <<"<C3>">>,
     <<" ", "2", "\t", "a", "\n", " ", "1", "\t", "a", "\n">>}
AuthorsInputs ==
    Responses(SeqsUpTo(AuthorsBytes, AuthorsMaxLen) \cup AuthorsSamples)

InitAuthors ==
    /\ InitMainIdle
    /\ call = "none"
    /\ resp \in AuthorsInputs
    /\ ret = NoRet

CallGetAllAuthors ==
    /\ call = "none"
    /\ call' = "get_all_authors"
    /\ ret' = get_all_authors(resp)
    /\ UNCHANGED <<resp, mainVars>>

SpecAuthors == InitAuthors /\ [][CallGetAllAuthors]_vars

CommitsBytes == {"\n", " ", "+", "-", "0", "1", "7", "x", "<A9>"}
CommitsInputs == Responses(SeqsUpTo(CommitsBytes, CommitsMaxLen))

InitCommits ==
    /\ InitMainIdle
    /\ call = "none"
    /\ resp \in CommitsInputs
    /\ ret = NoRet

CallGetNumAuthorCommits ==
    /\ call = "none"
    /\ call' = "get_num_author_commits"
    /\ ret' = get_num_author_commits(resp)
    /\ UNCHANGED <<resp, mainVars>>

SpecCommits == InitCommits /\ [][CallGetNumAuthorCommits]_vars

EditsBytes == {"\n", "\t", "-", "+", "1", "2"}
\* Two outputs that are not UTF-8.
EditsNonUtf8 == {<<"1", "\t", "2", "\n", "<A9>">>, <<"2", "\t", "<C3>">>}
EditsInputs == Responses(SeqsUpTo(EditsBytes, EditsMaxLen) \cup EditsNonUtf8)

InitEdits ==
    /\ InitMainIdle
    /\ call = "none"
    /\ resp \in EditsInputs
    /\ ret = NoRet

CallGetNumAuthorEdits ==
    /\ call = "none"
    /\ call' = "get_num_author_edits"
    /\ ret' = get_num_author_edits(resp)
    /\ UNCHANGED <<resp, mainVars>>

SpecEdits == InitEdits /\ [][CallGetNumAuthorEdits]_vars

(***************************************************************************)
(* main (main.rs 53-110).                                                  *)
(***************************************************************************)
\* The text as a string, for the format strings.
RECURSIVE Str(_)
Str(s) == IF s = <<>> THEN "" ELSE Head(s) \o Str(Tail(s))

\* impl Display for CodeEdits (main.rs 43-51)
display_code_edits(ce) ==
    ToString(ce.additions) \o " additions and "
        \o ToString(ce.removals) \o " removals"

ending_always_plural(n) == ToString(n) \o " commits"

\* The match on num_commits (main.rs 94-100); 0 is skipped before it.
ending(n) ==
    IF n = 1 THEN "1 commit" ELSE ToString(n) \o " commits"

\* What writeln! writes for one AuthorData (main.rs 102-106).
report_line(author_data) ==
    Str(author_data.author_name) \o " has made "
        \o ending(author_data.num_commits) \o ": "
        \o display_code_edits(author_data.code_edits) \o "\n"

RECURSIVE sort_by_num_commits_reverse_unstable(_)
sort_by_num_commits_reverse_unstable(v) ==
    IF v = <<>> THEN <<>>
    ELSE LET rest ==
                 sort_by_num_commits_reverse_unstable(SubSeq(v, 1, Len(v) - 1))
             x == v[Len(v)]
             k == Cardinality({i \in 1..Len(rest) :
                                  rest[i].num_commits > x.num_commits})
         IN  SubSeq(rest, 1, k) \o <<x>> \o SubSeq(rest, k + 1, Len(rest))

\* authors_data.sort_by(|a, b| a.num_commits.cmp(&b.num_commits).reverse())
\* (main.rs 87): a stable sort; each element is put after the elements that
\* the comparison does not order after it.
RECURSIVE sort_by_num_commits_reverse(_)
sort_by_num_commits_reverse(v) ==
    IF v = <<>> THEN <<>>
    ELSE LET rest == sort_by_num_commits_reverse(SubSeq(v, 1, Len(v) - 1))
             x == v[Len(v)]
             k == Cardinality({i \in 1..Len(rest) :
                                  rest[i].num_commits >= x.num_commits})
         IN  SubSeq(rest, 1, k) \o <<x>> \o SubSeq(rest, k + 1, Len(rest))

\* The commands (main.rs 118-121, 154-157, 177-180): the git subcommand and
\* the author of --author; target_dir and branch are those of the run.
\* Bash::quote_vec of a str is UTF-8 again, so the String::from_utf8(..)?
\* of the quoted author and branch (main.rs 117, 151-152, 174-175) returns
\* no error.
shortlog_command == [tool |-> "shortlog", author |-> <<>>]
rev_list_command(author) == [tool |-> "rev-list", author |-> author]
log_command(author) == [tool |-> "log", author |-> author]

Ran(command, result) ==
    [tool |-> command.tool, author |-> command.author, ok |-> result.ok]

\* What the tool may answer to each command.
TextsOfLines(lineSet, n) ==
    LET RECURSIVE Cat(_)
        Cat(ls) == IF ls = <<>> THEN <<>>
                   ELSE Head(ls) \o <<"\n">> \o Cat(Tail(ls))
    IN  {Cat(ls) : ls \in SeqsUpTo(lineSet, n)}
SummaryLines ==
    {<<" ", "3", "\t", "B">>, <<" ", "1", "\t", "a">>,
     <<" ", "2", "\t", "A", " ", "b">>}
SummaryResponses == Responses(TextsOfLines(SummaryLines, MaxSummaryLines))
CountResponses ==
    Responses({<<"0", "\n">>, <<"1", "\n">>, <<"2", "\n">>, <<"x", "\n">>})
NumstatResponses ==
    Responses({<<>>, <<"1", "0", "\t", "5", "\n", "-", "\t", "-", "\t", "b", "\n">>})

Init ==
    /\ pc = "get_all_authors"
    /\ authors = <<>>
    /\ idx = 0
    /\ num_commits = 0
    /\ authors_data = <<>>
    /\ out = <<>>
    /\ printed = <<>>
    /\ queries = <<>>
    /\ err = ""
    /\ call = "none"
    /\ resp = NoResp
    /\ ret = NoRet

\* let authors = get_all_authors(&target_dir, &cli.branch)?;  (main.rs 71)
MainGetAllAuthors ==
    /\ pc = "get_all_authors"
    /\ \E r \in SummaryResponses :
          LET result == get_all_authors(r)
          IN  /\ queries' = Append(queries, Ran(shortlog_command, result))
              /\ IF result.ok
                 THEN /\ authors' = result.val
                      /\ idx' = 1
                      /\ pc' = IF result.val = <<>> THEN "sort_by"
                               ELSE "get_num_author_commits"
                      /\ err' = err
                 ELSE /\ pc' = "failed"
                      /\ err' = "get_all_authors"
                      /\ UNCHANGED <<authors, idx>>
    /\ UNCHANGED <<num_commits, authors_data, out, printed, unitVars>>

\* let num_commits = get_num_author_commits(&author, ..)?;  (main.rs 79)
MainGetNumAuthorCommits ==
    /\ pc = "get_num_author_commits"
    /\ \E r \in CountResponses :
          LET result == get_num_author_commits(r)
          IN  /\ queries' =
                     Append(queries, Ran(rev_list_command(authors[idx]), result))
              /\ IF result.ok
                 THEN /\ num_commits' = result.val
                      /\ pc' = "get_num_author_edits"
                      /\ err' = err
                 ELSE /\ pc' = "failed"
                      /\ err' = "get_num_author_commits"
                      /\ UNCHANGED num_commits
    /\ UNCHANGED <<authors, idx, authors_data, out, printed, unitVars>>

\* let code_edits = get_num_author_edits(&author, ..)?; authors_data.push(..)
\* and the next turn of the loop (main.rs 78, 80-86).
MainGetNumAuthorEdits_swallows_error ==
    /\ pc = "get_num_author_edits"
    /\ \E r \in NumstatResponses :
          LET result == get_num_author_edits(r)
              code_edits == IF result.ok THEN result.val
                            ELSE [additions |-> 0, removals |-> 0]
          IN  /\ queries' =
                     Append(queries, Ran(log_command(authors[idx]), result))
              /\ authors_data' =
                     Append(authors_data,
                            [num_commits |-> num_commits,
                             code_edits |-> code_edits,
                             author_name |-> authors[idx]])
              /\ idx' = idx + 1
              /\ pc' = IF idx = Len(authors) THEN "sort_by"
                       ELSE "get_num_author_commits"
              /\ err' = err
    /\ UNCHANGED <<authors, num_commits, out, printed, unitVars>>

MainGetNumAuthorEdits ==
    /\ pc = "get_num_author_edits"
    /\ \E r \in NumstatResponses :
          LET result == get_num_author_edits(r)
          IN  /\ queries' =
                     Append(queries, Ran(log_command(authors[idx]), result))
              /\ IF result.ok
                 THEN /\ authors_data' =
                             Append(authors_data,
                                    [num_commits |-> num_commits,
                                     code_edits |-> result.val,
                                     author_name |-> authors[idx]])
                      /\ idx' = idx + 1
                      /\ pc' = IF idx = Len(authors) THEN "sort_by"
                               ELSE "get_num_author_commits"
                      /\ err' = err
                 ELSE /\ pc' = "failed"
                      /\ err' = "get_num_author_edits"
                      /\ UNCHANGED <<authors_data, idx>>
    /\ UNCHANGED <<authors, num_commits, out, printed, unitVars>>

MainSortBy_forgotten ==
    /\ pc = "sort_by"
    /\ idx' = 1
    /\ pc' = "print"
    /\ UNCHANGED <<authors, num_commits, authors_data, out, printed, queries,
                   err, unitVars>>

\* authors_data.sort_by(..) and the BufWriter (main.rs 87-91)
MainSortBy ==
    /\ pc = "sort_by"
    /\ authors_data' = sort_by_num_commits_reverse(authors_data)
    /\ idx' = 1
    /\ pc' = "print"
    /\ UNCHANGED <<authors, num_commits, out, printed, queries, err, unitVars>>

\* One turn of for author_data in authors_data (main.rs 93-107): nothing
\* for 0 commits; otherwise writeln!, whose io::Error main returns.
MainPrintLine ==
    /\ pc = "print"
    /\ idx <= Len(authors_data)
    /\ LET author_data == authors_data[idx]
       IN  IF author_data.num_commits = 0
           THEN /\ idx' = idx + 1
                /\ UNCHANGED <<pc, out, printed, err>>
           ELSE \E written \in BOOLEAN :
                   IF written
                   THEN /\ out' = Append(out, report_line(author_data))
                        /\ printed' = Append(printed, author_data)
                        /\ idx' = idx + 1
                        /\ UNCHANGED <<pc, err>>
                   ELSE /\ pc' = "failed"
                        /\ err' = "writeln"
                        /\ UNCHANGED <<idx, out, printed>>
    /\ UNCHANGED <<authors, num_commits, authors_data, queries, unitVars>>

\* Ok(())  (main.rs 109)
MainReturnOk ==
    /\ pc = "print"
    /\ idx > Len(authors_data)
    /\ pc' = "done"
    /\ UNCHANGED <<authors, idx, num_commits, authors_data, out, printed,
                   queries, err, unitVars>>

Next ==
    \/ MainGetAllAuthors
    \/ MainGetNumAuthorCommits
    \/ MainGetNumAuthorEdits
    \/ MainSortBy
    \/ MainPrintLine
    \/ MainReturnOk

Spec == Init /\ [][Next]_vars

(***************************************************************************)
(* The notions the properties are stated in, defined by positions in the   *)
(* text, not by the program's iterators.                                   *)
(***************************************************************************)
Blank(c) == c \in {" ", "\t", "\n", "\r", "\f"}

Least(S) == CHOOSE x \in S : \A y \in S : x <= y
Nth(S, k) == CHOOSE x \in S : Cardinality({y \in S : y < x}) = k - 1

\* The text without one final line feed.
WithoutFinalNewline(t) ==
    IF Len(t) > 0 /\ t[Len(t)] = "\n" THEN [i \in 1..(Len(t) - 1) |-> t[i]]
    ELSE t

\* The positions where a line of t starts, and the line that starts at p.
LineStarts(t) ==
    {p \in {1} \cup {i + 1 : i \in {j \in 1..Len(t) : t[j] = "\n"}} :
        p <= Len(t)}
LineAt(t, p) ==
    LET stop == Least({i \in p..Len(t) : t[i] = "\n"} \cup {Len(t) + 1})
    IN  [i \in 1..(stop - p) |-> t[p + i - 1]]
LineCount(t) == Cardinality(LineStarts(t))
Line(t, n) == LineAt(t, Nth(LineStarts(t), n))

\* The positions where a whitespace-separated token of l starts, and the
\* token that starts at p.
TokenStarts(l) ==
    {p \in 1..Len(l) : ~Blank(l[p]) /\ (p = 1 \/ Blank(l[p - 1]))}
TokenAt(l, p) ==
    LET stop == Least({i \in p..Len(l) : Blank(l[i])} \cup {Len(l) + 1})
    IN  [i \in 1..(stop - p) |-> l[p + i - 1]]
TokenCount(l) == Cardinality(TokenStarts(l))
Token(l, k) == TokenAt(l, Nth(TokenStarts(l), k))

\* A numeral: decimal digits, which a '+' may precede; and its value.
Digits == {ToString(d) : d \in 0..9}
DigitsOf(t) == IF Len(t) > 0 /\ t[1] = "+" THEN Tail(t) ELSE t
IsNumeral(t) ==
    /\ Len(DigitsOf(t)) > 0
    /\ \A i \in 1..Len(DigitsOf(t)) : DigitsOf(t)[i] \in Digits
RECURSIVE SumTo(_, _)
SumTo(f, n) == IF n = 0 THEN 0 ELSE f[n] + SumTo(f, n - 1)
NumeralValue(t) ==
    LET d == DigitsOf(t)
        place == [i \in 1..Len(d) |->
                    (CHOOSE v \in 0..9 : ToString(v) = d[i])
                        * 10 ^ (Len(d) - i)]
    IN  SumTo(place, Len(d))

\* How often v occurs in the sequence s.
Occurrences(s, v) == Cardinality({i \in 1..Len(s) : s[i] = v})
SameEntries(s, t) ==
    /\ Len(s) = Len(t)
    /\ \A i \in 1..Len(s) : Occurrences(s, s[i]) = Occurrences(t, s[i])

\* The text the runner returned to the function that was applied to resp.
ReturnedText == get_stdout_from_subprocess_or_fail(resp).val
RunnerSucceeded == get_stdout_from_subprocess_or_fail(resp).ok

(***************************************************************************)
(* C7, get_stdout_from_subprocess_or_fail.                                 *)
(***************************************************************************)
\* C7: the runner succeeds exactly when the subprocess was launched and
\* exited with code 0, and then returns the captured stdout without one
\* final line feed (everything else kept); otherwise it returns an error.
C7_RunnerReturnsStdout ==
    call = "runner" =>
        /\ ret.ok <=> (resp.launched /\ resp.code = 0)
        /\ ret.ok => ret.val = WithoutFinalNewline(resp.stdout)

(***************************************************************************)
(* C4, C10: get_all_authors.                                               *)
(***************************************************************************)
\* C4: the list get_all_authors returns is ascending in byte order and
\* holds no entry twice.
C4_AuthorsSortedNoDuplicates ==
    (call = "get_all_authors" /\ ret.ok) =>
        /\ \A i \in 1..Len(ret.val) : \A j \in 1..Len(ret.val) :
               i < j => ~str_lt(ret.val[j], ret.val[i])
        /\ \A i \in 1..Len(ret.val) : \A j \in 1..Len(ret.val) :
               i # j => ret.val[i] # ret.val[j]

\* The entry the claim gives a line: its tokens but the first, with one
\* space between two of them.
RECURSIVE NameFrom(_, _)
NameFrom(l, k) ==
    IF k > TokenCount(l) THEN <<>>
    ELSE IF k = TokenCount(l) THEN Token(l, k)
    ELSE Token(l, k) \o <<" ">> \o NameFrom(l, k + 1)
ExpectedEntries(t) == [n \in 1..LineCount(t) |-> NameFrom(Line(t, n), 2)]

C6_CommitsStrict ==
    (call = "get_num_author_commits" /\ resp.launched /\ resp.code = 0) =>
        LET t == WithoutFinalNewline(resp.stdout)
        IN  IF IsNumeral(t) THEN ret = Ok(NumeralValue(t))
            ELSE ret = Err("parse")

\* The output "17\n" gave 17.
C6_Witness ==
    /\ call = "get_num_author_commits"
    /\ resp.launched /\ resp.code = 0
    /\ resp.stdout = <<"1", "7", "\n">>
    /\ ret = Ok(17)

(***************************************************************************)
(* C5: get_num_author_edits.                                               *)
(***************************************************************************)
\* What the claim lets token k of a line count for: its value when the line
\* has a token k and it is a numeral, and zero otherwise.
FieldValue(l, k) ==
    IF k <= TokenCount(l) /\ IsNumeral(Token(l, k))
    THEN NumeralValue(Token(l, k)) ELSE 0
FieldSum(t, k) ==
    SumTo([n \in 1..LineCount(t) |-> FieldValue(Line(t, n), k)], LineCount(t))

BytewiseLeq(a, b) ==
    \/ Len(a) <= Len(b) /\ \A i \in 1..Len(a) : a[i] = b[i]
    \/ \E k \in 1..Len(a) :
          /\ k <= Len(b)
          /\ \A i \in 1..(k - 1) : a[i] = b[i]
          /\ Byte(a[k]) < Byte(b[k])

\* C1: on a successful run the report is in descending order of commit
\* count, and records of equal count are in the ascending byte order of
\* their names, the order get_all_authors returned them in.
C1_ReportOrdered ==
    pc = "done" =>
        /\ \A i \in 1..Len(authors) : \A j \in 1..Len(authors) :
               i < j => BytewiseLeq(authors[i], authors[j])
        /\ \A i \in 1..Len(printed) : \A j \in 1..Len(printed) :
               i < j =>
                   /\ printed[i].num_commits >= printed[j].num_commits
                   /\ printed[i].num_commits = printed[j].num_commits
                          => BytewiseLeq(printed[i].author_name,
                                         printed[j].author_name)

\* Three authors "A b", "B", "a" with 1, 2 and 1 commits: "B" is first, and
\* the two of one commit keep the order of their names.
C1_Witness ==
    /\ pc = "done"
    /\ authors = << <<"A", " ", "b">>, <<"B">>, <<"a">> >>
    /\ [i \in 1..Len(printed) |-> printed[i].author_name]
           = << <<"B">>, <<"A", " ", "b">>, <<"a">> >>
    /\ [i \in 1..Len(printed) |-> printed[i].num_commits] = <<2, 1, 1>>

LinesFor(name) ==
    Cardinality({i \in 1..Len(printed) : printed[i].author_name = name})
HasCommits(name) ==
    \E k \in 1..Len(authors_data) :
        /\ authors_data[k].author_name = name
        /\ authors_data[k].num_commits # 0

\* C2: on a successful run the report has exactly one line for each author
\* get_all_authors returned whose commit count is not zero, none for an
\* author whose count is zero, and none for any other name.
C2_OneLinePerAuthor ==
    pc = "done" =>
        /\ \A i \in 1..Len(printed) :
               \E j \in 1..Len(authors) : authors[j] = printed[i].author_name
        /\ \A j \in 1..Len(authors) :
               LinesFor(authors[j]) = IF HasCommits(authors[j]) THEN 1 ELSE 0

FunctionOf(tool) ==
    CASE tool = "shortlog" -> "get_all_authors"
      [] tool = "rev-list" -> "get_num_author_commits"
      [] tool = "log" -> "get_num_author_edits"

\* C3: a query that fails (the author list, a commit count or the edit
\* stats of any author) is the last query of the run: main has returned
\* that error, runs nothing more, and no line has been written.
C3_FirstFailureAborts ==
    /\ \A i \in 1..Len(queries) :
           ~queries[i].ok =>
               /\ i = Len(queries)
               /\ pc = "failed"
               /\ err = FunctionOf(queries[i].tool)
               /\ out = <<>>
    /\ pc = "failed" => ~ENABLED Next
    /\ (pc = "failed" /\ err # "writeln") => ~queries[Len(queries)].ok

\* The edit-stats query of the third and last author failed, after the
\* metrics of two authors were collected.
C3_Witness ==
    /\ pc = "failed"
    /\ err = "get_num_author_edits"
    /\ Len(authors) = 3
    /\ Len(authors_data) = 2
    /\ Len(queries) = 7
    /\ authors_data[1].num_commits > 0
    /\ out = <<>>

\* The commands of a whole run over the authors as, in order.
ExpectedCommands(as) ==
    [i \in 1..(2 * Len(as) + 1) |->
        IF i = 1 THEN [tool |-> "shortlog", author |-> <<>>]
        ELSE IF i % 2 = 0 THEN [tool |-> "rev-list", author |-> as[i \div 2]]
        ELSE [tool |-> "log", author |-> as[(i - 1) \div 2]]]
CommandsRun ==
    [i \in 1..Len(queries) |->
        [tool |-> queries[i].tool, author |-> queries[i].author]]

\* C8: the commands run are always the first ones of: the author list once,
\* then for each author in list order its commit count and then its edit
\* stats; and a line is written only when all of them have run, every
\* author has its record and the records are in their sorted order.
C8_StraightLine ==
    /\ Len(queries) <= 2 * Len(authors) + 1
    /\ \A i \in 1..Len(queries) : CommandsRun[i] = ExpectedCommands(authors)[i]
    /\ pc = "get_all_authors" => queries = <<>>
    /\ out # <<>> =>
           /\ pc \in {"print", "done", "failed"}
           /\ CommandsRun = ExpectedCommands(authors)
           /\ Len(authors_data) = Len(authors)
           /\ \A i \in 1..(Len(authors_data) - 1) :
                  authors_data[i].num_commits >= authors_data[i + 1].num_commits

\* A whole run over three authors whose counts were collected in the order
\* 1, 2, 1, with lines written.
C8_Witness ==
    /\ pc = "done"
    /\ Len(authors) = 3
    /\ Len(queries) = 7
    /\ Len(out) = 3
    /\ authors_data[1].author_name = authors[2]

\* The line the claim gives a record.
ExpectedLine(d) ==
    Str(d.author_name) \o " has made " \o ToString(d.num_commits)
        \o (IF d.num_commits > 1 THEN " commits" ELSE " commit") \o ": "
        \o ToString(d.code_edits.additions) \o " additions and "
        \o ToString(d.code_edits.removals) \o " removals" \o "\n"
HasLine(d) == d.num_commits # 0

\* C9: each written line is '<name> has made <N> commit(s): <A> additions
\* and <R> removals' of one record, with "1 commit" for one commit and
\* "N commits" for more; the lines are those of the records with commits
\* that the loop has passed, in order, and a record of 0 commits has none.
C9_LineFormat ==
    /\ Len(out) = Len(printed)
    /\ \A k \in 1..Len(out) :
           /\ printed[k].num_commits >= 1
           /\ out[k] = ExpectedLine(printed[k])
    /\ pc \in {"print", "done"} \/ err = "writeln" =>
           printed = SelectSeq(SubSeq(authors_data, 1, idx - 1), HasLine)

\* A report of a record with two commits and one with one commit, and a
\* third record, of no commit, that has no line.
C9_Witness ==
    /\ pc = "done"
    /\ Len(authors_data) = 3
    /\ authors_data[3].num_commits = 0
    /\ out = <<"a has made 2 commits: 10 additions and 5 removals\n",
               "B has made 1 commit: 0 additions and 0 removals\n">>

====
